---- MODULE Spec2Model ----
(***************************************************************************)
(* Model of typeit: the TypeGuard container (typeit.catted.js:106-209)     *)
(* and the bfsTraversal / dfsTraversal functions (typeit.catted.js:        *)
(* 255-297).                                                               *)
(*                                                                         *)
(* JavaScript arrays are reference values: the model keeps them in a heap  *)
(* (array id -> element sequence) and a TypeGuard instance is the id of    *)
(* the array its `data` field points to.                                   *)
(***************************************************************************)
EXTENDS Integers, Sequences, FiniteSets, TLC

\* ------------------------------------------------------------------------
\* Bounds
\* ------------------------------------------------------------------------
\* capacity of the heap: every array costs two units plus one per element
MaxHeap == 7
\* largest number of nodes of a generated traversal input
MaxNodes == 4
\* longest array a queried container is constructed from
MaxQueryLen == 3

\* ------------------------------------------------------------------------
\* JavaScript values
\* ------------------------------------------------------------------------
\* One record shape for every value: kind is the runtime kind, num the
\* numeric payload, str the characters of a string / regexp source, kids
\* the children of an array (index order) or the Object.values of an object
\* (own key order).
Val(k, n, s, ks) == [kind |-> k, num |-> n, str |-> s, kids |-> ks]
Num(n) == Val("number", n, <<>>, <<>>)
NaN == Val("number", 0, <<"N", "a", "N">>, <<>>)
Str(s) == Val("string", 0, s, <<>>)
Bool(b) == Val("boolean", IF b THEN 1 ELSE 0, <<>>, <<>>)
Null == Val("null", 0, <<>>, <<>>)
Undefined == Val("undefined", 0, <<>>, <<>>)
RegExpObj(s) == Val("regexp", 0, s, <<>>)
Arr(ks) == Val("array", 0, <<>>, ks)
Obj(ks) == Val("object", 0, <<>>, ks)

\* the typeof operator
typeof(v) ==
    CASE v.kind = "number" -> "number"
      [] v.kind = "string" -> "string"
      [] v.kind = "boolean" -> "boolean"
      [] v.kind = "undefined" -> "undefined"
      [] v.kind = "function" -> "function"
      [] OTHER -> "object"

\* Array.isArray, as used by isArrayLike
isArrayLike(v) == v.kind = "array"

\* decimal digits of a natural number, as String(n) prints them
Digit(d) == <<"0", "1", "2", "3", "4", "5", "6", "7", "8", "9">>[d + 1]
RECURSIVE DecStr(_)
DecStr(n) == IF n < 10 THEN <<Digit(n)>> ELSE DecStr(n \div 10) \o <<Digit(n % 10)>>

\* String(v) for the values a container can hold
ToStr(v) ==
    CASE v.kind = "number" -> IF v.str # <<>> THEN v.str ELSE DecStr(v.num)
      [] v.kind = "string" -> v.str
      [] v.kind = "boolean" -> IF v.num = 1 THEN <<"t", "r", "u", "e">>
                                            ELSE <<"f", "a", "l", "s", "e">>
      [] OTHER -> <<>>

\* value of a decimal digit character, -1 for any other character
DigitValue(ch) ==
    CASE ch = "0" -> 0 [] ch = "1" -> 1 [] ch = "2" -> 2 [] ch = "3" -> 3
      [] ch = "4" -> 4 [] ch = "5" -> 5 [] ch = "6" -> 6 [] ch = "7" -> 7
      [] ch = "8" -> 8 [] ch = "9" -> 9 [] OTHER -> -1
\* value of a string of decimal digits read after the prefix value acc,
\* -1 when a character is not a digit
RECURSIVE ParseDigits(_, _)
ParseDigits(s, acc) ==
    IF s = <<>> THEN acc
    ELSE IF DigitValue(Head(s)) < 0 THEN -1
    ELSE ParseDigits(Tail(s), acc * 10 + DigitValue(Head(s)))

\* the number a value converts to in x * 2 and x > 1
ToNumber(v) ==
    CASE v.kind = "number" -> v
      [] v.kind = "string" -> IF ParseDigits(v.str, 0) < 0 THEN NaN
                              ELSE Num(ParseDigits(v.str, 0))
      [] v.kind = "boolean" -> Num(v.num)
      [] v.kind = "null" -> Num(0)
      [] OTHER -> NaN

\* Array.prototype.join(', ')
RECURSIVE Join(_)
Join(s) ==
    IF s = <<>> THEN <<>>
    ELSE IF Len(s) = 1 THEN ToStr(s[1])
    ELSE ToStr(s[1]) \o <<",", " ">> \o Join(Tail(s))

\* ------------------------------------------------------------------------
\* TypeGuard: state
\* ------------------------------------------------------------------------
VARIABLES
    heap,       \* array id -> elements of that array
    nalloc,     \* number of arrays allocated so far (ids 1..nalloc)
    cdata,      \* container id -> id of the array in its `data` field
    ncont,      \* number of containers constructed so far
    callerRefs, \* ids of the arrays the caller passed to the constructor
    origin,     \* container id -> how it came to exist, and from which one
    capacity,   \* heap units the run may use
    last,       \* the call that produced this state and how it ended
    root,       \* traversal: the obj argument as it was when the call began
    input,      \* traversal: the structure obj refers to, as it is now
    alias,      \* traversal: which object the queue / stack and the result are
    typeEnum,   \* traversal: the typeEnum argument
    order,      \* traversal: "bfs" or "dfs"
    work,       \* traversal: the queue (bfs) or stack (dfs)
    result,     \* traversal: the result array
    tstatus     \* traversal: "running", "returned" or "threw"

cvars == <<heap, nalloc, cdata, ncont, callerRefs, origin, capacity, last>>
tvars == <<root, input, alias, typeEnum, order, work, result, tstatus>>
vars == <<heap, nalloc, cdata, ncont, callerRefs, origin, capacity, last, input, alias,
          root, typeEnum, order, work, result, tstatus>>

ArrIds == 1..(MaxHeap + MaxQueryLen)
ContIds == 1..(MaxHeap + MaxQueryLen)
Containers == 1..ncont
Data(c) == heap[cdata[c]]
RECURSIVE CellsUpTo(_)
CellsUpTo(a) == IF a = 0 THEN 0 ELSE Len(heap[a]) + CellsUpTo(a - 1)
Cells == CellsUpTo(nalloc)
\* n more heap units fit
Room(n) == 2 * nalloc + Cells + n <= capacity

\* ------------------------------------------------------------------------
\* TypeGuard: inputs of the calls
\* ------------------------------------------------------------------------
\* arguments handed to the constructor: arrays (the last one is not
\* type-homogeneous) and two values that are not arrays
InitialArrays ==
    { <<>>, <<Num(1), Num(2), Num(3)>>, <<Str(<<"a">>)>> }
NonArrays == { Obj(<<>>) }
\* elements handed to push / insertAt
Elements == { Num(9), Str(<<"a">>) }
\* indices handed to insertAt / removeAt on an array of length n: every
\* position of the array and the nearest ones outside it
Indices(n) == -1..(n + 1)
\* elements the caller writes into an array it still holds
CallerElements == { Str(<<"a">>) }

\* callbacks handed to map: x => x * 2, x => String(x)
MapFns == { "double", "toString" }
ApplyMap(fn, v) ==
    CASE fn = "double" -> IF ToNumber(v) = NaN THEN NaN ELSE Num(ToNumber(v).num * 2)
      [] OTHER -> Str(ToStr(v))
\* callbacks handed to filter: x => x > 1, x => false
FilterFns == { "gt1", "none" }
ApplyFilter(fn, v) ==
    CASE fn = "gt1" -> ToNumber(v) # NaN /\ ToNumber(v).num > 1
      [] OTHER -> FALSE

\* the record kept in `last`
Call(op, c, idx, elem, outcome, ret) ==
    [op |-> op, c |-> c, idx |-> idx, elem |-> elem, outcome |-> outcome, ret |-> ret]
\* the idx of a call that takes no index: outside every index range
NoIdx == -(MaxHeap + 2)
Origin(how, from) == [how |-> how, from |-> from]
RetContainer(c) == Val("container", c, <<>>, <<>>)
\* a callback argument, by its name in MapFns / FilterFns
Callback(fn) == Val("function", 0, <<fn>>, <<>>)

\* ------------------------------------------------------------------------
\* TypeGuard: methods
\* ------------------------------------------------------------------------
\* a typeGuard that never throws
typeGuard_AcceptsAll(value, expectedType) == TRUE

\* typeGuard(value, expectedType): TRUE when it returns, FALSE when it throws
typeGuard(value, expectedType) == typeof(value) = expectedType

\* an insertAt range check that also rejects index = length
InsertOutOfBounds_Exclusive(index, length) == index < 0 \/ index >= length

\* the range checks of insertAt and removeAt: TRUE when they throw
InsertOutOfBounds(index, length) == index < 0 \/ index > length
RemoveOutOfBounds(index, length) == index < 0 \/ index >= length

\* a splice that overwrites the element at index: splice(index, 1, element)
SpliceInsert_Replace(s, index, element) ==
    SubSeq(s, 1, index) \o <<element>> \o SubSeq(s, index + 2, Len(s))

\* Array.prototype.splice(index, 0, element) for 0 <= index <= length
SpliceInsert(s, index, element) ==
    SubSeq(s, 1, index) \o <<element>> \o SubSeq(s, index + 1, Len(s))

\* the array left by Array.prototype.splice(index, 1) for 0 <= index < length
SpliceRemove(s, index) ==
    SubSeq(s, 1, index) \o SubSeq(s, index + 2, Len(s))

\* a pop() that takes the first element, as shift() does
ArrayPop_Shift(s) ==
    IF s = <<>> THEN [data |-> <<>>, element |-> Undefined]
    ELSE [data |-> Tail(s), element |-> Head(s)]

\* Array.prototype.pop(): the array left and the element returned
ArrayPop(s) ==
    IF s = <<>> THEN [data |-> <<>>, element |-> Undefined]
    ELSE [data |-> SubSeq(s, 1, Len(s) - 1), element |-> s[Len(s)]]

\* this.data[index]
ArrayGet(s, index) ==
    IF index >= 0 /\ index < Len(s) THEN s[index + 1] ELSE Undefined

\* a + that always concatenates, as it does once an operand is a string
Plus_Concat(acc, val) == Str(ToStr(acc) \o ToStr(val))

\* acc + val
Plus(acc, val) ==
    IF acc.kind = "number" /\ val.kind = "number"
    THEN IF acc = NaN \/ val = NaN THEN NaN ELSE Num(acc.num + val.num)
    ELSE Str(ToStr(acc) \o ToStr(val))

\* Array.prototype.reduce((acc, val) => acc + val, initialValue)
RECURSIVE ArrayReduce(_, _)
ArrayReduce(s, initialValue) ==
    IF s = <<>> THEN initialValue
    ELSE ArrayReduce(Tail(s), Plus(initialValue, Head(s)))

\* Array.prototype.map / filter, building a new sequence
RECURSIVE ArrayMap(_, _), ArrayFilter(_, _)
ArrayMap(s, fn) ==
    IF s = <<>> THEN <<>> ELSE <<ApplyMap(fn, Head(s))>> \o ArrayMap(Tail(s), fn)

\* a filter that collects the accepted elements last to first
ArrayFilter_Reversed(s, fn) ==
    LET kept == SelectSeq(s, LAMBDA v : ApplyFilter(fn, v))
    IN [k \in 1..Len(kept) |-> kept[Len(kept) + 1 - k]]

ArrayFilter(s, fn) ==
    IF s = <<>> THEN <<>>
    ELSE (IF ApplyFilter(fn, Head(s)) THEN <<Head(s)>> ELSE <<>>) \o ArrayFilter(Tail(s), fn)

\* the array a constructed container stores in this.data, given the id of
\* the array passed in: the very same array
ConstructorData(initialValues) == initialValues

\* a clone() that wraps this.data itself
CloneData_SameArray(thisData, spread) == thisData

\* the array clone() wraps, given the id of this.data and the id of the
\* array the spread expression [...this.data] creates
CloneData(thisData, spread) == spread

\* a map / filter that writes its elements back into this.data
NewArray_InPlace(thisData, fresh) == thisData

\* the array this.data.map(callback) / this.data.filter(callback) writes
\* its elements to and returns, given the id of this.data and the id of
\* the next free array: a new array
NewArray(thisData, fresh) == fresh

\* new TypeGuard(initialValues) with an array the caller built and keeps
Construct(init) ==
    /\ Room(2 + Len(init))
    /\ LET a == nalloc + 1
           c == ncont + 1
       IN /\ heap' = [heap EXCEPT ![a] = init]
          /\ nalloc' = a
          /\ cdata' = [cdata EXCEPT ![c] = ConstructorData(a)]
          /\ ncont' = c
          /\ callerRefs' = callerRefs \cup {a}
          /\ origin' = [origin EXCEPT ![c] = Origin("construct", 0)]
          /\ last' = Call("construct", c, NoIdx, Arr(init), "ok", RetContainer(c))
    /\ UNCHANGED <<capacity, tvars>>

\* new TypeGuard(): the default parameter is a fresh array nobody else holds
ConstructDefault ==
    /\ Room(2)
    /\ LET a == nalloc + 1
           c == ncont + 1
       IN /\ heap' = [heap EXCEPT ![a] = <<>>]
          /\ nalloc' = a
          /\ cdata' = [cdata EXCEPT ![c] = ConstructorData(a)]
          /\ ncont' = c
          /\ origin' = [origin EXCEPT ![c] = Origin("construct", 0)]
          /\ last' = Call("construct", c, NoIdx, Undefined, "ok", RetContainer(c))
    /\ UNCHANGED <<callerRefs, capacity, tvars>>

\* new TypeGuard(v) with v not an array: throws, no container comes to exist
ConstructThrows(v) ==
    /\ ~isArrayLike(v)
    /\ last' = Call("construct", 0, NoIdx, v, "TypeError", Undefined)
    /\ UNCHANGED <<heap, nalloc, cdata, ncont, callerRefs, origin, capacity, tvars>>

\* push(element)
Push(c, element) ==
    /\ IF typeGuard(element, "number")
       THEN /\ Room(1)
            /\ heap' = [heap EXCEPT ![cdata[c]] = Append(@, element)]
            /\ last' = Call("push", c, NoIdx, element, "ok", RetContainer(c))
       ELSE /\ heap' = heap
            /\ last' = Call("push", c, NoIdx, element, "TypeError", Undefined)
    /\ UNCHANGED <<nalloc, cdata, ncont, callerRefs, origin, capacity, tvars>>

\* pop()
Pop(c) ==
    /\ heap' = [heap EXCEPT ![cdata[c]] = ArrayPop(@).data]
    /\ last' = Call("pop", c, NoIdx, Undefined, "ok", ArrayPop(Data(c)).element)
    /\ UNCHANGED <<nalloc, cdata, ncont, callerRefs, origin, capacity, tvars>>

\* insertAt(index, element)
InsertAt(c, index, element) ==
    /\ IF InsertOutOfBounds(index, Len(Data(c)))
       THEN /\ heap' = heap
            /\ last' = Call("insertAt", c, index, element, "RangeError", Undefined)
       ELSE IF ~typeGuard(element, "number")
       THEN /\ heap' = heap
            /\ last' = Call("insertAt", c, index, element, "TypeError", Undefined)
       ELSE /\ Room(1)
            /\ heap' = [heap EXCEPT ![cdata[c]] = SpliceInsert(@, index, element)]
            /\ last' = Call("insertAt", c, index, element, "ok", RetContainer(c))
    /\ UNCHANGED <<nalloc, cdata, ncont, callerRefs, origin, capacity, tvars>>

\* removeAt(index)
RemoveAt(c, index) ==
    /\ IF RemoveOutOfBounds(index, Len(Data(c)))
       THEN /\ heap' = heap
            /\ last' = Call("removeAt", c, index, Undefined, "RangeError", Undefined)
       ELSE /\ heap' = [heap EXCEPT ![cdata[c]] = SpliceRemove(@, index)]
            /\ last' = Call("removeAt", c, index, Undefined, "ok", Data(c)[index + 1])
    /\ UNCHANGED <<nalloc, cdata, ncont, callerRefs, origin, capacity, tvars>>

\* map(callback)
Map(c, fn) ==
    /\ LET newArray == NewArray(cdata[c], nalloc + 1)
           d == ncont + 1
       IN /\ Room(2 + Len(ArrayMap(Data(c), fn)))
          /\ heap' = [heap EXCEPT ![newArray] = ArrayMap(Data(c), fn)]
          /\ nalloc' = nalloc + 1
          /\ cdata' = [cdata EXCEPT ![d] = ConstructorData(newArray)]
          /\ ncont' = d
          /\ origin' = [origin EXCEPT ![d] = Origin("map", c)]
          /\ last' = Call("map", c, NoIdx, Callback(fn), "ok", RetContainer(d))
    /\ UNCHANGED <<callerRefs, capacity, tvars>>

\* filter(callback)
Filter(c, fn) ==
    /\ LET newArray == NewArray(cdata[c], nalloc + 1)
           d == ncont + 1
       IN /\ Room(2 + Len(ArrayFilter(Data(c), fn)))
          /\ heap' = [heap EXCEPT ![newArray] = ArrayFilter(Data(c), fn)]
          /\ nalloc' = nalloc + 1
          /\ cdata' = [cdata EXCEPT ![d] = ConstructorData(newArray)]
          /\ ncont' = d
          /\ origin' = [origin EXCEPT ![d] = Origin("filter", c)]
          /\ last' = Call("filter", c, NoIdx, Callback(fn), "ok", RetContainer(d))
    /\ UNCHANGED <<callerRefs, capacity, tvars>>

\* clone()
Clone(c) ==
    /\ LET spread == nalloc + 1
           d == ncont + 1
       IN /\ Room(2 + Len(Data(c)))
          /\ heap' = [heap EXCEPT ![spread] = Data(c)]
          /\ nalloc' = spread
          /\ cdata' = [cdata EXCEPT ![d] = ConstructorData(CloneData(cdata[c], spread))]
          /\ ncont' = d
          /\ origin' = [origin EXCEPT ![d] = Origin("clone", c)]
          /\ last' = Call("clone", c, NoIdx, Undefined, "ok", RetContainer(d))
    /\ UNCHANGED <<callerRefs, capacity, tvars>>

\* at(index)
At(c, index) ==
    /\ last' = Call("at", c, index, Undefined, "ok", ArrayGet(Data(c), index))
    /\ UNCHANGED <<heap, nalloc, cdata, ncont, callerRefs, origin, capacity, tvars>>

\* reduce((acc, val) => acc + val, 0)
Reduce(c) ==
    /\ last' = Call("reduce", c, NoIdx, Num(0), "ok", ArrayReduce(Data(c), Num(0)))
    /\ UNCHANGED <<heap, nalloc, cdata, ncont, callerRefs, origin, capacity, tvars>>

\* toString()
toString(c) == <<"[">> \o Join(Data(c)) \o <<"]">>

\* the caller pushes onto an array it passed to a constructor
CallerPush(a, element) ==
    /\ a \in callerRefs
    /\ Room(1)
    /\ heap' = [heap EXCEPT ![a] = Append(@, element)]
    /\ last' = Call("callerPush", 0, a, element, "ok", Undefined)
    /\ UNCHANGED <<nalloc, cdata, ncont, callerRefs, origin, capacity, tvars>>

\* traversal state while the container is exercised
TIdle ==
    /\ root = Undefined
    /\ input = Undefined
    /\ alias = [work |-> "fresh", result |-> "fresh"]
    /\ typeEnum = <<>>
    /\ order = "none"
    /\ work = <<>>
    /\ result = <<>>
    /\ tstatus = "idle"

\* no container constructed yet
Init ==
    /\ heap = [a \in ArrIds |-> <<>>]
    /\ nalloc = 0
    /\ cdata = [c \in ContIds |-> 0]
    /\ ncont = 0
    /\ callerRefs = {}
    /\ origin = [c \in ContIds |-> Origin("none", 0)]
    /\ capacity = MaxHeap
    /\ last = Call("none", 0, NoIdx, Undefined, "ok", Undefined)
    /\ TIdle

Next ==
    \/ \E init \in InitialArrays : Construct(init)
    \/ ConstructDefault
    \/ \E v \in NonArrays : ConstructThrows(v)
    \/ \E c \in Containers, e \in Elements : Push(c, e)
    \/ \E c \in Containers : Pop(c)
    \/ \E c \in Containers, e \in Elements :
          \E i \in Indices(Len(Data(c))) : InsertAt(c, i, e)
    \/ \E c \in Containers : \E i \in Indices(Len(Data(c))) : RemoveAt(c, i)
    \/ \E c \in Containers, fn \in MapFns : Map(c, fn)
    \/ \E c \in Containers, fn \in FilterFns : Filter(c, fn)
    \/ \E c \in Containers : Clone(c)
    \/ \E a \in ArrIds, e \in CallerElements : CallerPush(a, e)

Spec == Init /\ [][Next]_vars

\* ------------------------------------------------------------------------
\* TypeGuard: the example usage
\* ------------------------------------------------------------------------
\* the values of the example: [10, 20, 30], 40, "string", 15
ExampleInitial == << Num(10), Num(20), Num(30) >>
ExamplePushed == { Num(40), Str(<<"s", "t", "r", "i", "n", "g">>) }
ExampleInserted == Num(15)

\* the calls of the example, made in any order and at any index
ExampleNext ==
    \/ Construct(ExampleInitial)
    \/ \E c \in Containers, e \in ExamplePushed : Push(c, e)
    \/ \E c \in Containers :
          \E i \in Indices(Len(Data(c))) : InsertAt(c, i, ExampleInserted)
    \/ \E c \in Containers : \E i \in Indices(Len(Data(c))) : RemoveAt(c, i)
    \/ \E c \in Containers : Map(c, "double")
    \/ \E c \in Containers : Reduce(c)

ExampleSpec == Init /\ [][ExampleNext]_vars

\* ------------------------------------------------------------------------
\* TypeGuard: queries on a container built from a given array
\* ------------------------------------------------------------------------
\* the arrays a queried container is constructed from
QueryElements == { Num(1), Num(2), Num(3) }
QueryArrays == UNION { [1..n -> QueryElements] : n \in 0..MaxQueryLen }

\* new TypeGuard(init) has returned; the run may hold that array and one
\* more of the same length
QueryInit ==
    /\ \E init \in QueryArrays :
          /\ heap = [a \in ArrIds |-> IF a = 1 THEN init ELSE <<>>]
          /\ last = Call("construct", 1, NoIdx, Arr(init), "ok", RetContainer(1))
    /\ nalloc = 1
    /\ cdata = [c \in ContIds |-> IF c = 1 THEN ConstructorData(1) ELSE 0]
    /\ ncont = 1
    /\ callerRefs = {1}
    /\ origin = [c \in ContIds |-> IF c = 1 THEN Origin("construct", 0) ELSE Origin("none", 0)]
    /\ capacity = 2 * (2 + MaxQueryLen)
    /\ TIdle

QueryNext ==
    \/ \E c \in Containers, fn \in FilterFns : Filter(c, fn)
    \/ \E c \in Containers, fn \in MapFns : Map(c, fn)
    \/ \E c \in Containers : \E i \in Indices(Len(Data(c))) : At(c, i)
    \/ \E c \in Containers : Reduce(c)

QuerySpec == QueryInit /\ [][QueryNext]_vars

\* ------------------------------------------------------------------------
\* TypeGuard: properties
\* ------------------------------------------------------------------------
\* the calls that mutate the container they are made on
Mutators == { "push", "pop", "insertAt", "removeAt" }
\* the container a call returned
Returned(call) == call.ret.num

\* C1: in every reachable state every element of every container's backing
\* sequence has type number.
C1_EveryElementIsANumber ==
    \A c \in Containers : \A i \in 1..Len(Data(c)) : typeof(Data(c)[i]) = "number"

\* C2: push(e) with a non-number e fails with a type error and leaves the
\* backing sequence as it was; push(e) with a number e appends e at the end
\* and returns the same container.
C2_PushIsTypeChecked ==
    [][last'.op = "push" =>
         LET c == last'.c
             e == last'.elem
         IN IF typeof(e) # "number"
            THEN /\ last'.outcome = "TypeError"
                 /\ heap'[cdata'[c]] = heap[cdata[c]]
            ELSE /\ last'.outcome = "ok"
                 /\ heap'[cdata'[c]] = Append(heap[cdata[c]], e)
                 /\ last'.ret = RetContainer(c)]_vars

\* a push of a non-number on a non-empty container has been rejected
C2_Witness ==
    /\ last.op = "push"
    /\ last.outcome = "TypeError"
    /\ typeof(last.elem) = "string"
    /\ Len(Data(last.c)) > 0

\* C3: on a container of length n, insertAt(i, e) succeeds exactly when
\* 0 <= i <= n and e is a number, removeAt(i) succeeds exactly when
\* 0 <= i < n; every other call fails with a range or type error and leaves
\* the backing sequence unchanged. For n = 3: insertAt(3, 9) succeeds,
\* insertAt(4, 9) fails, removeAt(3) fails, removeAt(2) succeeds.
C3_IndexBounds ==
    [][LET c == last'.c
           i == last'.idx
           e == last'.elem
           n == Len(heap[cdata[c]])
           ok == last'.outcome = "ok"
           failedUnchanged == /\ last'.outcome \in {"RangeError", "TypeError"}
                              /\ heap'[cdata'[c]] = heap[cdata[c]]
       IN /\ last'.op = "insertAt" =>
                /\ ok <=> (0 <= i /\ i <= n /\ typeof(e) = "number")
                /\ ok => Len(heap'[cdata'[c]]) = n + 1
                /\ ~ok => failedUnchanged
                /\ (n = 3 /\ i = 3 /\ e = Num(9)) => ok
                /\ (n = 3 /\ i = 4 /\ e = Num(9)) => last'.outcome = "RangeError"
          /\ last'.op = "removeAt" =>
                /\ ok <=> (0 <= i /\ i < n)
                /\ ok => Len(heap'[cdata'[c]]) = n - 1
                /\ ~ok => failedUnchanged
                /\ (n = 3 /\ i = 3) => last'.outcome = "RangeError"
                /\ (n = 3 /\ i = 2) => ok]_vars

\* insertAt(3, 9) has succeeded on a 3-element container
C3_Witness ==
    /\ last.op = "insertAt"
    /\ last.idx = 3
    /\ last.elem = Num(9)
    /\ last.outcome = "ok"
    /\ Len(Data(last.c)) = 4

\* C8: right after c2 = c.clone(), c2 has the same elements and the same
\* toString() as c, and no later push, pop, insertAt or removeAt on one of
\* the two changes the other.
C8_CloneIsIndependent ==
    /\ [](last.op = "clone" =>
            /\ Data(Returned(last)) = Data(last.c)
            /\ toString(Returned(last)) = toString(last.c))
    /\ [][last'.op \in Mutators =>
            \A d \in Containers :
                origin[d].how = "clone" =>
                    /\ last'.c = d =>
                          heap'[cdata'[origin[d].from]] = heap[cdata[origin[d].from]]
                    /\ last'.c = origin[d].from =>
                          heap'[cdata'[d]] = heap[cdata[d]]]_vars

\* an element has been pushed onto the clone of a non-empty container
C8_Witness ==
    /\ last.op = "push"
    /\ last.outcome = "ok"
    /\ origin[last.c].how = "clone"
    /\ Data(origin[last.c].from) # <<>>
    /\ Data(last.c) # Data(origin[last.c].from)

\* C9: a container owns its backing sequence: no mutation of the array the
\* caller passed to the constructor changes a container, and no push, pop,
\* insertAt or removeAt on a container changes the caller's array.
C9_ExclusiveOwnership ==
    [][/\ last'.op = "callerPush" =>
            \A c \in Containers : heap'[cdata'[c]] = heap[cdata[c]]
       /\ last'.op \in Mutators =>
            \A a \in callerRefs : heap'[a] = heap[a]]_vars

\* C10: map(fn) and filter(fn) return a new container and leave the
\* original's elements and length unchanged, and no later push, pop,
\* insertAt or removeAt on the returned container changes the original.
C10_MapFilterLeaveOriginal ==
    [][/\ last'.op \in {"map", "filter"} =>
            /\ Returned(last') \notin Containers
            /\ Returned(last') \in 1..ncont'
            /\ cdata'[Returned(last')] # cdata'[last'.c]
            /\ heap'[cdata'[last'.c]] = heap[cdata[last'.c]]
       /\ (last'.op \in Mutators /\ origin[last'.c].how \in {"map", "filter"}) =>
            heap'[cdata'[origin[last'.c].from]] = heap[cdata[origin[last'.c].from]]]_vars

\* an element has been pushed onto the container map returned for a
\* non-empty original
C10_Witness ==
    /\ last.op = "push"
    /\ last.outcome = "ok"
    /\ origin[last.c].how = "map"
    /\ Data(origin[last.c].from) # <<>>

\* ------------------------------------------------------------------------
\* Traversal: inputs
\* ------------------------------------------------------------------------
\* scalar values found in the walked structures
TLeaves == { Num(1), Str(<<"a">>), Bool(TRUE), Null, RegExpObj(<<"a">>) }

\* every structure of exactly n nodes: a leaf, or an array / object whose
\* children are a forest of n - 1 nodes
RECURSIVE TreesOfSize(_), Forests(_)
TreesOfSize(n) ==
    IF n = 1 THEN TLeaves \cup { Arr(<<>>), Obj(<<>>) }
    ELSE { Arr(f) : f \in Forests(n - 1) } \cup { Obj(f) : f \in Forests(n - 1) }
Forests(n) ==
    IF n = 0 THEN { <<>> }
    ELSE UNION { { <<t>> \o f : t \in TreesOfSize(k), f \in Forests(n - k) } : k \in 1..n }

\* [[1,2],[3,4]] and ["a", true, {}]
ExampleNested == Arr(<<Arr(<<Num(1), Num(2)>>), Arr(<<Num(3), Num(4)>>)>>)
ExampleMixed == Arr(<<Str(<<"a">>), Bool(TRUE), Obj(<<>>)>>)

Roots == UNION { TreesOfSize(n) : n \in 1..MaxNodes } \cup { ExampleNested, ExampleMixed }

\* A typeEnum argument: for each method name the traversals call, whether
\* the object has that method and the kinds of value it answers true for.
PredNames == <<"isString", "isNumber", "isBoolean", "isRegExp">>
Registered(acc) == [reg |-> TRUE, acc |-> acc]
Absent == [reg |-> FALSE, acc |-> {}]
\* all four predicates, each testing for its own type
DefaultTypeEnum ==
    [isString |-> Registered({"string"}), isNumber |-> Registered({"number"}),
     isBoolean |-> Registered({"boolean"}), isRegExp |-> Registered({"regexp"})]
\* all four predicates present, only isNumber ever answers true
NumberMatchingTypeEnum ==
    [isString |-> Registered({}), isNumber |-> Registered({"number"}),
     isBoolean |-> Registered({}), isRegExp |-> Registered({})]
\* an object that has an isNumber method and nothing else
NumberOnlyTypeEnum ==
    [isString |-> Absent, isNumber |-> Registered({"number"}),
     isBoolean |-> Absent, isRegExp |-> Absent]
\* an object without an isRegExp method
NoRegExpTypeEnum ==
    [isString |-> Registered({"string"}), isNumber |-> Registered({"number"}),
     isBoolean |-> Registered({"boolean"}), isRegExp |-> Absent]
TypeEnums == { DefaultTypeEnum, NumberMatchingTypeEnum, NumberOnlyTypeEnum, NoRegExpTypeEnum }

\* ------------------------------------------------------------------------
\* Traversal: bfsTraversal / dfsTraversal, one loop iteration per step
\* ------------------------------------------------------------------------
\* Object.values(item) of a non-null object that is not an array
ObjectValues(item) == item.kids

\* a queue / stack that is the obj array itself, as `const queue = obj` makes
NewWork_IsInput(obj) ==
    IF isArrayLike(obj) THEN [items |-> obj.kids, identity |-> "input"]
    ELSE [items |-> <<obj>>, identity |-> "fresh"]

\* const queue = [obj] / const stack = [obj]: an array literal is a new
\* array, with obj as its one element
NewWork(obj) == [items |-> <<obj>>, identity |-> "fresh"]
\* const result = []
NewResult == [items |-> <<>>, identity |-> "fresh"]

\* what spreading a composite (...item, ...Object.values(item)) leaves of
\* it: iteration reads the children and removes none
AfterSpread(item) == item

\* the structure v with every occurrence of the composite old replaced by new
RECURSIVE Replace(_, _, _)
Replace(v, old, new) ==
    IF v = old THEN new
    ELSE IF v.kind \in {"array", "object"}
    THEN [v EXCEPT !.kids = [i \in 1..Len(v.kids) |-> Replace(v.kids[i], old, new)]]
    ELSE v

\* the input structure after one iteration on item that left the work
\* collection n.work and the result n.result
InputAfter(inp, al, item, n) ==
    IF al.work = "input" THEN Arr(n.work)
    ELSE IF al.result = "input" THEN Arr(n.result)
    ELSE IF typeof(item) = "object" /\ item # Null
    THEN Replace(inp, item, AfterSpread(item))
    ELSE inp

\* a loop condition that stops one item early
LoopCondition_OffByOne(w) == Len(w) > 1

\* the loop condition: queue.length > 0 / stack.length > 0
LoopCondition(w) == Len(w) > 0

\* a shift() that takes the last item instead of the first
ShiftItem_Last(queue) == queue[Len(queue)]

\* queue.shift(): the item taken and the queue left
ShiftItem(queue) == Head(queue)
ShiftRest(queue) == Tail(queue)
\* stack.pop(): the item taken and the stack left
PopItem(stack) == stack[Len(stack)]

\* a pop() after which the stack has lost two items
PopRest_DropsTwo(stack) == SubSeq(stack, 1, Len(stack) - 2)

PopRest(stack) == SubSeq(stack, 1, Len(stack) - 1)
\* a push(...items) that adds the items last to first
RECURSIVE Reverse(_)
Reverse(q) == IF q = <<>> THEN <<>> ELSE Reverse(Tail(q)) \o <<Head(q)>>
PushAll_Reversed(w, items) == w \o Reverse(items)

\* queue.push(...items) / stack.push(...items)
PushAll(w, items) == w \o items

\* the if / else-if chain over the four predicates, from the i-th on:
\* "push" when one answers true, "drop" when all answer false, "throw" when
\* the chain reaches a method the typeEnum object does not have
RECURSIVE Classify(_, _, _)
Classify(te, item, i) ==
    IF i > Len(PredNames) THEN "drop"
    ELSE IF ~te[PredNames[i]].reg THEN "throw"
    ELSE IF item.kind \in te[PredNames[i]].acc THEN "push"
    ELSE Classify(te, item, i + 1)

\* one iteration of either loop on the item just taken off the work
\* collection `rest`: the new work collection, result and status
Iteration(te, item, rest, res) ==
    IF isArrayLike(item)
    THEN [work |-> PushAll(rest, item.kids), result |-> res, status |-> "running"]
    ELSE IF typeof(item) = "object" /\ item # Null
    THEN [work |-> PushAll(rest, ObjectValues(item)), result |-> res, status |-> "running"]
    ELSE CASE Classify(te, item, 1) = "push" ->
                [work |-> rest, result |-> Append(res, item), status |-> "running"]
           [] Classify(te, item, 1) = "drop" ->
                [work |-> rest, result |-> res, status |-> "running"]
           [] OTHER ->
                [work |-> rest, result |-> res, status |-> "threw"]

\* bfsTraversal: queue.shift(), then the body of the loop
BfsIteration ==
    /\ order = "bfs" /\ tstatus = "running" /\ LoopCondition(work)
    /\ LET n == Iteration(typeEnum, ShiftItem(work), ShiftRest(work), result)
       IN /\ work' = n.work
          /\ result' = n.result
          /\ tstatus' = n.status
          /\ input' = InputAfter(input, alias, ShiftItem(work), n)
    /\ UNCHANGED <<root, alias, typeEnum, order, cvars>>

\* bfsTraversal: the loop condition fails, return result
BfsReturn ==
    /\ order = "bfs" /\ tstatus = "running" /\ ~LoopCondition(work)
    /\ tstatus' = "returned"
    /\ UNCHANGED <<root, input, alias, typeEnum, order, work, result, cvars>>

\* dfsTraversal: stack.pop(), then the body of the loop
DfsIteration ==
    /\ order = "dfs" /\ tstatus = "running" /\ LoopCondition(work)
    /\ LET n == Iteration(typeEnum, PopItem(work), PopRest(work), result)
       IN /\ work' = n.work
          /\ result' = n.result
          /\ tstatus' = n.status
          /\ input' = InputAfter(input, alias, PopItem(work), n)
    /\ UNCHANGED <<root, alias, typeEnum, order, cvars>>

\* dfsTraversal: the loop condition fails, return result
DfsReturn ==
    /\ order = "dfs" /\ tstatus = "running" /\ ~LoopCondition(work)
    /\ tstatus' = "returned"
    /\ UNCHANGED <<root, input, alias, typeEnum, order, work, result, cvars>>

\* a whole call of the traversal of the given order, from the work
\* collection w and the result res on: how it ends and the result it has
RECURSIVE Run(_, _, _, _)
Run(ord, te, w, res) ==
    IF ~LoopCondition(w) THEN [status |-> "returned", result |-> res]
    ELSE LET n == IF ord = "bfs" THEN Iteration(te, ShiftItem(w), ShiftRest(w), res)
                                 ELSE Iteration(te, PopItem(w), PopRest(w), res)
         IN IF n.status = "threw" THEN [status |-> "threw", result |-> n.result]
            ELSE Run(ord, te, n.work, n.result)

\* container state while a traversal runs
CIdle ==
    /\ heap = [a \in ArrIds |-> <<>>]
    /\ nalloc = 0
    /\ cdata = [c \in ContIds |-> 0]
    /\ ncont = 0
    /\ callerRefs = {}
    /\ origin = [c \in ContIds |-> Origin("none", 0)]
    /\ capacity = MaxHeap
    /\ last = Call("none", 0, NoIdx, Undefined, "ok", Undefined)

\* a call of bfsTraversal(obj, typeEnum) or dfsTraversal(obj, typeEnum),
\* just after its two declarations
TraversalInit ==
    /\ CIdle
    /\ root \in Roots
    /\ typeEnum \in TypeEnums
    /\ order \in {"bfs", "dfs"}
    /\ input = root
    /\ alias = [work |-> NewWork(root).identity, result |-> NewResult.identity]
    /\ work = NewWork(root).items
    /\ result = NewResult.items
    /\ tstatus = "running"

TraversalNext == BfsIteration \/ BfsReturn \/ DfsIteration \/ DfsReturn

TraversalSpec == TraversalInit /\ [][TraversalNext]_vars

\* the functions are synchronous and run to completion: a call that can
\* take its next step takes it
TraversalFairSpec == TraversalInit /\ [][TraversalNext]_vars /\ WF_vars(TraversalNext)

\* ------------------------------------------------------------------------
\* Traversal: properties
\* ------------------------------------------------------------------------
\* a typeEnum that has all four predicates and whose isNumber accepts numbers
MatchesNumbers(te) ==
    /\ \A i \in 1..Len(PredNames) : te[PredNames[i]].reg
    /\ "number" \in te.isNumber.acc
\* a composite: an array or a keyed mapping; everything else is a scalar leaf
IsComposite(v) == v.kind \in {"array", "object"}
\* the value satisfies at least one predicate the typeEnum has
Matches(te, v) ==
    \E i \in 1..Len(PredNames) : te[PredNames[i]].reg /\ v.kind \in te[PredNames[i]].acc
\* number of scalar leaves of a structure that match
RECURSIVE MatchingLeaves(_, _), MatchingLeavesOfAll(_, _)
MatchingLeaves(te, v) ==
    IF IsComposite(v) THEN MatchingLeavesOfAll(te, v.kids)
    ELSE IF Matches(te, v) THEN 1 ELSE 0
MatchingLeavesOfAll(te, ks) ==
    IF ks = <<>> THEN 0 ELSE MatchingLeaves(te, Head(ks)) + MatchingLeavesOfAll(te, Tail(ks))
\* the call has ended, by returning or by throwing
Ended == tstatus \in {"returned", "threw"}

\* C4 as stated: for root = [[1,2],[3,4]] and a predicate set matching
\* numbers, dfsTraversal returns [3,4,1,2].
C4_DfsReturns3412 ==
    (order = "dfs" /\ root = ExampleNested /\ MatchesNumbers(typeEnum) /\ Ended) =>
        (tstatus = "returned" /\ result = <<Num(3), Num(4), Num(1), Num(2)>>)

\* C4 amended: for root = [[1,2],[3,4]] and a predicate set matching
\* numbers, dfsTraversal returns [4,3,2,1].
C4_DfsReturns4321 ==
    (order = "dfs" /\ root = ExampleNested /\ MatchesNumbers(typeEnum) /\ Ended) =>
        (tstatus = "returned" /\ result = <<Num(4), Num(3), Num(2), Num(1)>>)

\* dfsTraversal([[1,2],[3,4]], typeEnum) has returned
C4_Witness ==
    /\ order = "dfs"
    /\ root = ExampleNested
    /\ typeEnum = NumberMatchingTypeEnum
    /\ tstatus = "returned"

\* C5: bfsTraversal appends the children of a dequeued composite to the
\* back of the queue in their natural order and emits matching leaves in
\* queue order; for root = [[1,2],[3,4]] and a predicate set matching
\* numbers it returns [1,2,3,4].
C5_BfsIsFifo ==
    /\ []((order = "bfs" /\ root = ExampleNested /\ MatchesNumbers(typeEnum) /\ Ended) =>
            (tstatus = "returned" /\ result = <<Num(1), Num(2), Num(3), Num(4)>>))
    /\ [][(order = "bfs" /\ tstatus = "running" /\ work # <<>>) =>
            LET front == work[1]
                back == SubSeq(work, 2, Len(work))
            IN IF IsComposite(front)
               THEN work' = back \o front.kids /\ result' = result
               ELSE /\ work' = back
                    /\ result' \in {result, result \o <<front>>}
                    /\ (MatchesNumbers(typeEnum) /\ front.kind = "number") =>
                            result' = result \o <<front>>]_vars

\* bfsTraversal([[1,2],[3,4]], typeEnum) has returned
C5_Witness ==
    /\ order = "bfs"
    /\ root = ExampleNested
    /\ typeEnum = NumberMatchingTypeEnum
    /\ tstatus = "returned"

\* C6: on a structure with k scalar leaves matching the predicate set, a
\* traversal returns exactly k elements, each satisfying at least one
\* predicate of the set.
C6_ReturnsEveryMatchingLeaf ==
    tstatus = "returned" =>
        /\ Len(result) = MatchingLeaves(typeEnum, root)
        /\ \A i \in 1..Len(result) : Matches(typeEnum, result[i])

\* C7: with a predicate set that registers only a number predicate a
\* traversal raises no error and its result holds no leaf of a type without
\* a registered predicate; for root = ["a", true, {}] it returns [].
C7_NumberOnlyNeverThrows ==
    typeEnum = NumberOnlyTypeEnum =>
        /\ tstatus # "threw"
        /\ \A i \in 1..Len(result) : result[i].kind = "number"
        /\ (root = ExampleMixed /\ Ended) => (tstatus = "returned" /\ result = <<>>)

\* C11: on every finite, acyclic input both traversals terminate, they
\* return exactly when the work queue / stack is empty, and null and
\* composites without children add nothing to the work collection or to
\* the result.
C11_TerminatesWhenWorkIsEmpty ==
    /\ <>Ended
    /\ [](tstatus = "returned" => work = <<>>)
    /\ [][tstatus = "running" =>
            /\ work = <<>> => tstatus' = "returned"
            /\ work # <<>> =>
                  LET item == IF order = "bfs" THEN work[1] ELSE work[Len(work)]
                      rest == IF order = "bfs" THEN SubSeq(work, 2, Len(work))
                                               ELSE SubSeq(work, 1, Len(work) - 1)
                  IN /\ tstatus' # "returned"
                     /\ (item = Null \/ (IsComposite(item) /\ item.kids = <<>>)) =>
                            (work' = rest /\ result' = result)]_vars

\* a traversal of a structure holding null and an empty composite has
\* returned
C11_Witness ==
    /\ tstatus = "returned"
    /\ IsComposite(root)
    /\ \E i, j \in 1..Len(root.kids) :
          /\ root.kids[i] = Null
          /\ IsComposite(root.kids[j]) /\ root.kids[j].kids = <<>>

\* C12: from a container holding [10, 20, 30], push(40) leaves
\* [10,20,30,40]; push("string") then fails and leaves [10,20,30,40];
\* insertAt(1, 15) then leaves [10,15,20,30,40]; removeAt(2) then leaves
\* [10,15,30,40]; and reduce with addition and seed 0 on that returns 95.
C12_ExampleScenario ==
    [][\A c \in Containers :
        LET s1 == << Num(10), Num(20), Num(30), Num(40) >>
            s2 == << Num(10), Num(15), Num(20), Num(30), Num(40) >>
            s3 == << Num(10), Num(15), Num(30), Num(40) >>
        IN last'.c = c =>
           /\ (Data(c) = << Num(10), Num(20), Num(30) >>
                 /\ last'.op = "push" /\ last'.elem = Num(40)) =>
                   (last'.outcome = "ok" /\ heap'[cdata'[c]] = s1)
           /\ (Data(c) = s1 /\ last'.op = "push" /\ last'.elem.kind = "string") =>
                   (last'.outcome = "TypeError" /\ heap'[cdata'[c]] = s1)
           /\ (Data(c) = s1 /\ last'.op = "insertAt"
                 /\ last'.idx = 1 /\ last'.elem = Num(15)) =>
                   (last'.outcome = "ok" /\ heap'[cdata'[c]] = s2)
           /\ (Data(c) = s2 /\ last'.op = "removeAt" /\ last'.idx = 2) =>
                   (last'.outcome = "ok" /\ heap'[cdata'[c]] = s3)
           /\ (Data(c) = s3 /\ last'.op = "reduce") =>
                   (last'.ret = Num(95) /\ heap'[cdata'[c]] = s3)]_vars

C12_Witness ==
    /\ last.op = "reduce"
    /\ last.c \in Containers
    /\ Data(last.c) = << Num(10), Num(15), Num(30), Num(40) >>
    /\ last.ret = Num(95)
    /\ origin[last.c].how = "construct"

\* C13: pop() never fails; on a non-empty container it returns the last
\* element, the length drops by one and every other element keeps its
\* position; on an empty container it returns undefined and the container
\* stays empty.
C13_PopRemovesLast ==
    [][last'.op = "pop" =>
        LET before == Data(last'.c)
            after == heap'[cdata'[last'.c]]
        IN /\ last'.outcome = "ok"
           /\ before # <<>> =>
                 /\ last'.ret = before[Len(before)]
                 /\ Len(after) = Len(before) - 1
                 /\ \A i \in 1..Len(after) : after[i] = before[i]
           /\ before = <<>> =>
                 /\ last'.ret = Undefined
                 /\ after = <<>>]_vars

C13_Witness ==
    /\ last.op = "pop"
    /\ last.ret = Num(3)
    /\ Data(last.c) = << Num(1), Num(2) >>

\* C14: when bfsTraversal or dfsTraversal returns, the structure it walked
\* is what it was when the call began (the root and every nested composite
\* have the same children in the same order), and the array it returns is
\* a new array, not one of the input's.
C14_InputIsUntouched ==
    tstatus = "returned" => (input = root /\ alias.result = "fresh")

C14_Witness ==
    /\ tstatus = "returned"
    /\ result # <<>>
    /\ isArrayLike(root)
    /\ \E i \in 1..Len(root.kids) : IsComposite(root.kids[i]) /\ root.kids[i].kids # <<>>

\* C15: an iteration that takes a regular-expression object off the work
\* collection, under a typeEnum whose four predicates exist and whose
\* isRegExp accepts it, appends it to the result and adds nothing to the
\* work collection.
C15_RegExpIsACollectedLeaf ==
    [][(/\ tstatus = "running"
        /\ work # <<>>
        /\ \A i \in 1..Len(PredNames) : typeEnum[PredNames[i]].reg
        /\ "regexp" \in typeEnum.isRegExp.acc) =>
          LET item == IF order = "bfs" THEN work[1] ELSE work[Len(work)]
              rest == IF order = "bfs" THEN SubSeq(work, 2, Len(work))
                                       ELSE SubSeq(work, 1, Len(work) - 1)
          IN item.kind = "regexp" =>
               (work' = rest /\ result' = Append(result, item))]_vars

\* C16: insertAt(i, e) with 0 <= i <= len(s) and e a number yields
\* s[0..i-1] ++ [e] ++ s[i..] and returns the container; removeAt(i) with
\* 0 <= i < len(s) returns s[i] and yields s[0..i-1] ++ s[i+1..]; so
\* removeAt(i) right after insertAt(i, e) returns e and restores s, and
\* insertAt(len(s), e) does what push(e) does.
C16_InsertRemoveAlgebra ==
    /\ [](\A c \in Containers : \A i \in 0..Len(Data(c)) : \A e \in Elements :
            /\ SpliceRemove(SpliceInsert(Data(c), i, e), i) = Data(c)
            /\ SpliceInsert(Data(c), i, e)[i + 1] = e
            /\ SpliceInsert(Data(c), Len(Data(c)), e) = Append(Data(c), e))
    /\ [][LET c == last'.c
              i == last'.idx
              e == last'.elem
              s == Data(c)
              after == heap'[cdata'[c]]
          IN /\ (last'.op = "insertAt" /\ 0 <= i /\ i <= Len(s) /\ e.kind = "number") =>
                   /\ last'.outcome = "ok"
                   /\ last'.ret = RetContainer(c)
                   /\ after = [k \in 1..(Len(s) + 1) |->
                                 IF k <= i THEN s[k] ELSE IF k = i + 1 THEN e ELSE s[k - 1]]
                   /\ i = Len(s) => after = Append(s, e)
             /\ (last'.op = "removeAt" /\ 0 <= i /\ i < Len(s)) =>
                   /\ last'.outcome = "ok"
                   /\ last'.ret = s[i + 1]
                   /\ after = [k \in 1..(Len(s) - 1) |-> IF k <= i THEN s[k] ELSE s[k + 1]]
                   /\ (last.op = "insertAt" /\ last.outcome = "ok"
                         /\ last.c = c /\ last.idx = i) => last'.ret = last.elem]_vars

C16_Witness ==
    /\ last.op = "removeAt" /\ last.outcome = "ok"
    /\ last.idx = 1 /\ last.ret = Num(9)
    /\ Data(last.c) = << Num(1), Num(2), Num(3) >>

\* C17: filter(fn) returns a container holding exactly the elements of the
\* original that fn accepts, in the order they have in the original, and
\* at(i) with i outside [0, length) returns undefined, does not fail and
\* changes no container.
C17_FilterIsSubsequence ==
    [][LET c == last'.c
           s == Data(c)
       IN /\ last'.op = "filter" =>
                LET fn == last'.elem.str[1]
                    r == heap'[cdata'[Returned(last')]]
                    keep == { k \in 1..Len(s) : ApplyFilter(fn, s[k]) }
                IN /\ last'.outcome = "ok"
                   /\ Len(r) = Cardinality(keep)
                   /\ \E f \in [1..Len(r) -> keep] :
                         /\ \A j, k \in 1..Len(r) : j < k => f[j] < f[k]
                         /\ \A j \in 1..Len(r) : r[j] = s[f[j]]
          /\ (last'.op = "at" /\ (last'.idx < 0 \/ last'.idx >= Len(s))) =>
                /\ last'.outcome = "ok"
                /\ last'.ret = Undefined
                /\ heap' = heap /\ cdata' = cdata /\ ncont' = ncont]_vars

C17_Witness ==
    /\ last.op = "filter"
    /\ Data(last.c) = << Num(3), Num(1), Num(2) >>
    /\ Data(Returned(last)) = << Num(3), Num(2) >>

\* number of positions of q that hold v
CountIn(q, v) == Cardinality({ i \in 1..Len(q) : q[i] = v })
\* the two sequences hold the same values the same number of times
SameBag(p, q) ==
    /\ Len(p) = Len(q)
    /\ \A i \in 1..Len(p) : CountIn(p, p[i]) = CountIn(q, p[i])
\* the call of the other traversal on the same arguments
OtherRun ==
    Run(IF order = "bfs" THEN "dfs" ELSE "bfs", typeEnum, NewWork(root).items, NewResult.items)

\* C18: when one traversal returns, the other traversal called with the
\* same structure and the same typeEnum returns too, and its result is a
\* permutation of this one's.
C18_SameLeavesEitherOrder ==
    tstatus = "returned" => (OtherRun.status = "returned" /\ SameBag(result, OtherRun.result))

C18_Witness ==
    /\ tstatus = "returned"
    /\ Len(result) >= 2
    /\ OtherRun.result # result

\* the matching scalar leaves of a structure, in left-to-right depth-first
\* order (children in their natural order)
RECURSIVE LeafList(_, _), LeafListOfAll(_, _)
LeafList(te, v) ==
    IF IsComposite(v) THEN LeafListOfAll(te, v.kids)
    ELSE IF Matches(te, v) THEN <<v>> ELSE <<>>
LeafListOfAll(te, ks) ==
    IF ks = <<>> THEN <<>> ELSE LeafList(te, Head(ks)) \o LeafListOfAll(te, Tail(ks))

\* C19: the sequence dfsTraversal returns is the exact reverse of the
\* matching leaves of the input listed in left-to-right depth-first order.
C19_DfsIsReversedLeafOrder ==
    (order = "dfs" /\ tstatus = "returned") => result = Reverse(LeafList(typeEnum, root))

\* C20: while a traversal runs and when it has returned, the matching
\* leaves in the result together with the matching leaves reachable from
\* the items still in the work collection are, as a multiset, the matching
\* leaves of the root; and a step changes the result only by appending
\* to it.
C20_NoLeafLostOrDuplicated ==
    /\ [](tstatus \in {"running", "returned"} =>
            SameBag(SelectSeq(result, LAMBDA v : Matches(typeEnum, v))
                        \o LeafListOfAll(typeEnum, work),
                    LeafList(typeEnum, root)))
    /\ [][\/ result' = result
          \/ /\ Len(result') = Len(result) + 1
             /\ SubSeq(result', 1, Len(result)) = result]_vars

====
